---- MODULE Spec2Model ----
(***************************************************************************)
(* Fliq "Match Result" watcher: the single-run variant                     *)
(* (fliq_match_result_cron.py, run_once) and the long-running variant      *)
(* (fliq_match_result_watcher.py, watcher_loop + cmd_validate).            *)
(*                                                                         *)
(* A market key (the trimmed parent header) is a number 1..NumKeys; the    *)
(* numeric order stands for the lexical order of the header strings.       *)
(* A timestamp string produced by now_iso() is a number 1..MaxTime.        *)
(* A snapshot is a function from a set of keys to market records.  The     *)
(* snapshot file is modelled by what load_snapshot()/load_matches()        *)
(* returns for it (a missing or invalid file loads as the empty mapping).  *)
(* The display-only fields match_header, slug and questionEndTime_iso are  *)
(* functions of the header and the end time and are left out of a record.  *)
(***************************************************************************)
EXTENDS Integers, Sequences, FiniteSets, TLC

\* ---------------------------------------------------------------- bounds
NumKeys == 2
MaxTime == 2
MaxQuestions == 2

Keys == 1..NumKeys
Times == 1..MaxTime

\* "first_detected_at" is not a field of the record
NoFda == -1
\* now_str before now_iso() is called
NoTime == 0
\* the int() of questionEndTime raised (non-numeric text)
BadEnd == -1
\* datetime.now(timezone.utc).timestamp() at the fetch
NowTs == 4
\* TELEGRAM_CHAT_ID of the admin, and some other sender
ADMIN_CHAT_ID == 1
OtherUser == 2
Users == {ADMIN_CHAT_ID, OtherUser}
\* no /validate is being handled
NoSender == 0

\* ------------------------------------------------------------- raw input
\* str.lower() on the category values used here
Lower(s) == IF s = "Football" THEN "football" ELSE s

\* The raw option records fetch_questions can return here: for every key
\* one tradable option of an upcoming match, two records the filter rejects
\* (another category, an end time that is not in the future), and one option
\* of the last market that is not tradable (its yes side has the id "0").
Question(k, e, y, c) ==
    [category |-> c, hasPhrase |-> TRUE, isSettled |-> FALSE,
     questionEndTime |-> e, parentQuestionHeader |-> k,
     parentQuestionId |-> 100 + k, questionId |-> 10 * k + 1,
     yes |-> y, no |-> "17"]

RawQuestions ==
    {Question(k, 5, "17", "Football") : k \in Keys}
    \cup {Question(1, 9, "17", "basketball"), Question(1, NowTs, "17", "football")}
    \cup {Question(NumKeys, 5, "0", "Football")}

RECURSIVE SeqsUpTo(_, _)
SeqsUpTo(S, n) ==
    IF n = 0 THEN {<<>>}
    ELSE LET shorter == SeqsUpTo(S, n - 1)
         IN  shorter \cup {Append(s, x) : s \in shorter, x \in S}

\* ------------------------------------------------------------ normalizer
\* bm.get("questionEndTime") or 0, the field missing
NoEnd == 0

\* mutant: an end time equal to the current time passes
is_upcoming_match_option_or_now(q, now_ts) ==
    /\ Lower(q.category) = "football"
    /\ q.hasPhrase
    /\ ~q.isSettled
    /\ q.questionEndTime # BadEnd
    /\ q.questionEndTime >= now_ts

is_upcoming_match_option(q, now_ts) ==
    /\ Lower(q.category) = "football"
    /\ q.hasPhrase
    /\ ~q.isSettled
    /\ q.questionEndTime # BadEnd
    /\ q.questionEndTime > now_ts

tradable(q) == q.yes # "" /\ q.no # "" /\ q.yes # "0" /\ q.no # "0"

\* mutant: the last option of a group decides its approval
add_question_last_decides(groups, q) ==
    IF q.parentQuestionHeader = 0 \/ q.parentQuestionId = 0 THEN groups
    ELSE
    LET key == q.parentQuestionHeader
        g0  == IF key \in DOMAIN groups THEN groups[key]
               ELSE [multi_question_id |-> q.parentQuestionId,
                     options |-> <<>>,
                     questionEndTime |-> q.questionEndTime,
                     is_approved |-> FALSE,
                     first_detected_at |-> NoFda]
        opt == [questionId |-> q.questionId,
                yesTokenMarketId |-> q.yes,
                noTokenMarketId |-> q.no,
                option_is_tradable |-> tradable(q)]
        g1  == [g0 EXCEPT !.options = Append(@, opt),
                          !.is_approved = tradable(q)]
    IN  [k \in DOMAIN groups \cup {key} |-> IF k = key THEN g1 ELSE groups[k]]

\* one iteration of the grouping loop
add_question(groups, q) ==
    IF q.parentQuestionHeader = 0 \/ q.parentQuestionId = 0 THEN groups
    ELSE
    LET key == q.parentQuestionHeader
        g0  == IF key \in DOMAIN groups THEN groups[key]
               ELSE [multi_question_id |-> q.parentQuestionId,
                     options |-> <<>>,
                     questionEndTime |-> q.questionEndTime,
                     is_approved |-> FALSE,
                     first_detected_at |-> NoFda]
        opt == [questionId |-> q.questionId,
                yesTokenMarketId |-> q.yes,
                noTokenMarketId |-> q.no,
                option_is_tradable |-> tradable(q)]
        g1  == [g0 EXCEPT !.options = Append(@, opt),
                          !.is_approved = @ \/ tradable(q)]
    IN  [k \in DOMAIN groups \cup {key} |-> IF k = key THEN g1 ELSE groups[k]]

RECURSIVE group_questions(_, _)
group_questions(groups, qs) ==
    IF qs = <<>> THEN groups
    ELSE group_questions(add_question(groups, Head(qs)), Tail(qs))

EmptySnapshot == [k \in {} |-> 0]

Restrict(f, S) == [k \in S |-> f[k]]

\* mutant: the groups are returned without the require_approved filter
build_live_snapshot_unfiltered(questions, now_ts, require_approved) ==
    group_questions(EmptySnapshot,
                    SelectSeq(questions, LAMBDA q : is_upcoming_match_option(q, now_ts)))

build_live_snapshot(questions, now_ts, require_approved) ==
    LET candidates == SelectSeq(questions, LAMBDA q : is_upcoming_match_option(q, now_ts))
        groups     == group_questions(EmptySnapshot, candidates)
    IN  IF require_approved
        THEN Restrict(groups, {k \in DOMAIN groups : groups[k].is_approved})
        ELSE groups

REQUIRE_APPROVED == TRUE

\* every snapshot a successful fetch can produce
FetchResults ==
    {build_live_snapshot(qs, NowTs, REQUIRE_APPROVED) : qs \in SeqsUpTo(RawQuestions, MaxQuestions)}

\* ------------------------------------------------------------- utilities
\* sorted(list(S)) for a set of keys
RECURSIVE sorted(_)
sorted(S) ==
    IF S = {} THEN <<>>
    ELSE LET m == CHOOSE x \in S : \A y \in S : x <= y
         IN  <<m>> \o sorted(S \ {m})

Range(s) == {s[i] : i \in DOMAIN s}

\* ---------------------------------------------------------------- store
\* What the snapshot file loads as after json.dump into open(..., "w"):
\* "ok" wrote it, "not_opened" failed in open() (file untouched),
\* "truncated" failed after open() truncated it (invalid JSON loads as {}).
SaveOutcomes == {"ok", "not_opened", "truncated"}

store_after(file, data, outcome) ==
    CASE outcome = "ok" -> data
      [] outcome = "not_opened" -> file
      [] OTHER -> EmptySnapshot

\* ------------------------------------------------------------ reconciler
\* mutant: every fetched key is taken for a new one
new_keys_of_all(current_, saved_) == sorted(DOMAIN current_)

\* new_keys = sorted(list(current_keys - saved_keys))
new_keys_of(current_, saved_) == sorted(DOMAIN current_ \ DOMAIN saved_)

\* mutant: every saved key is taken for a removed one
removed_keys_of_all(saved_, current_) == sorted(DOMAIN saved_)

\* removed_keys = sorted(list(saved_keys - current_keys))
removed_keys_of(saved_, current_) == sorted(DOMAIN saved_ \ DOMAIN current_)

\* mutant: nothing is carried over
carry_over_nothing(current_, saved_) == current_

\* carry over first_detected_at
carry_over(current_, saved_) ==
    [k \in DOMAIN current_ |->
        IF k \in DOMAIN saved_ /\ saved_[k].first_detected_at # NoFda
        THEN [current_[k] EXCEPT !.first_detected_at = saved_[k].first_detected_at]
        ELSE current_[k]]

\* mutant: no key is stamped
stamp_new_none(current_, new_keys_, now_) == current_

\* mutant: every key of the cycle is stamped
stamp_new_all(current_, new_keys_, now_) ==
    [k \in DOMAIN current_ |-> [current_[k] EXCEPT !.first_detected_at = now_]]

\* m["first_detected_at"] = now_str for k in new_keys
stamp_new(current_, new_keys_, now_) ==
    [k \in DOMAIN current_ |->
        IF k \in Range(new_keys_)
        THEN [current_[k] EXCEPT !.first_detected_at = now_]
        ELSE current_[k]]

\* mutant: the loop ends at the first send that fails
RECURSIVE notify_new_until_failure(_, _)
notify_new_until_failure(new_keys_, failed) ==
    IF new_keys_ = <<>> THEN <<>>
    ELSE <<[type |-> "alert", key |-> Head(new_keys_), ok |-> Head(new_keys_) \notin failed]>>
         \o (IF Head(new_keys_) \in failed THEN <<>>
             ELSE notify_new_until_failure(Tail(new_keys_), failed))

\* mutant: the keys are taken in the opposite order
RECURSIVE notify_new_reversed(_, _)
notify_new_reversed(new_keys_, failed) ==
    IF new_keys_ = <<>> THEN <<>>
    ELSE notify_new_reversed(Tail(new_keys_), failed)
         \o <<[type |-> "alert", key |-> Head(new_keys_), ok |-> Head(new_keys_) \notin failed]>>

\* the alert loop: one send per new key, each in its own try
RECURSIVE notify_new(_, _)
notify_new(new_keys_, failed) ==
    IF new_keys_ = <<>> THEN <<>>
    ELSE <<[type |-> "alert", key |-> Head(new_keys_), ok |-> Head(new_keys_) \notin failed]>>
         \o notify_new(Tail(new_keys_), failed)

\* cron: one append_removed_log call per removed key, with the saved record
RECURSIVE log_removed(_, _, _)
log_removed(removed_keys_, saved_, log_failed) ==
    IF removed_keys_ = <<>> THEN <<>>
    ELSE <<[type |-> "removed", key |-> Head(removed_keys_),
            data |-> saved_[Head(removed_keys_)],
            ok |-> Head(removed_keys_) \notin log_failed]>>
         \o log_removed(Tail(removed_keys_), saved_, log_failed)

save_event(data, outcome) == <<[type |-> "save", data |-> data, outcome |-> outcome]>>

\* A value of the loaded mapping that is not an object: load_snapshot checks
\* only that the top level is a dict.  Here a JSON number, on which .get()
\* and `"first_detected_at" in` both raise.
NotADict == [json |-> "number"]

is_dict(v) == "options" \in DOMAIN v

\* ------------------------------------------------------------- validator
\* mutant: the saved record is replaced by the live one
reconcile_fields_replacing(saved_info, live_info) == live_info

\* mutant: the options comparison never copies the fresh options
reconcile_fields_keeping_options(saved_info, live_info) ==
    LET a == IF saved_info.questionEndTime # live_info.questionEndTime
             THEN [saved_info EXCEPT !.questionEndTime = live_info.questionEndTime]
             ELSE saved_info
    IN  IF a.is_approved # live_info.is_approved
        THEN [a EXCEPT !.is_approved = live_info.is_approved]
        ELSE a

\* the three field comparisons of one surviving key
reconcile_fields(saved_info, live_info) ==
    LET a == IF saved_info.questionEndTime # live_info.questionEndTime
             THEN [saved_info EXCEPT !.questionEndTime = live_info.questionEndTime]
             ELSE saved_info
        b == IF a.options # live_info.options
             THEN [a EXCEPT !.options = live_info.options]
             ELSE a
    IN  IF b.is_approved # live_info.is_approved
        THEN [b EXCEPT !.is_approved = live_info.is_approved]
        ELSE b

\* mutant: the options are compared by their number only
fields_changed_by_count(saved_info, live_info) ==
    \/ saved_info.questionEndTime # live_info.questionEndTime
    \/ Len(saved_info.options) # Len(live_info.options)
    \/ saved_info.is_approved # live_info.is_approved

\* the `changed` flag of one surviving key
fields_changed(saved_info, live_info) ==
    \/ saved_info.questionEndTime # live_info.questionEndTime
    \/ saved_info.options # live_info.options
    \/ saved_info.is_approved # live_info.is_approved

\* the single append_removed_log(removed) call of a validation pass
RECURSIVE log_removed_headers(_, _)
log_removed_headers(removed, log_ok) ==
    IF removed = <<>> THEN <<>>
    ELSE <<[type |-> "removed", key |-> Head(removed),
            reason |-> "no longer approved/present", ok |-> log_ok]>>
         \o log_removed_headers(Tail(removed), log_ok)

\* mutant: a key that is not live is logged but stays in the snapshot
validate_against_no_drop(saved_, live, file, log_ok, outcome, send_ok) ==
    LET removed  == sorted({k \in DOMAIN saved_ : k \notin DOMAIN live})
        kept     == DOMAIN saved_ \cap DOMAIN live
        repaired == [k \in DOMAIN saved_ |->
                        IF k \in kept THEN reconcile_fields(saved_[k], live[k]) ELSE saved_[k]]
        updated_ == sorted({k \in kept : fields_changed(saved_[k], live[k])})
        dirty    == removed # <<>> \/ updated_ # <<>>
    IN  [fetch   |-> "ok",
         live    |-> live,
         ret     |-> repaired,
         removed |-> removed,
         updated |-> updated_,
         file    |-> IF dirty THEN store_after(file, repaired, outcome) ELSE file,
         events  |-> log_removed_headers(removed, log_ok)
                     \o (IF dirty
                         THEN save_event(repaired, outcome)
                              \o <<[type |-> "report", removed |-> removed,
                                    updated |-> updated_, ok |-> send_ok]>>
                         ELSE <<>>)]

\* mutant: the snapshot is saved and reported only when a key was removed
validate_against_saves_removals_only(saved_, live, file, log_ok, outcome, send_ok) ==
    LET removed  == sorted({k \in DOMAIN saved_ : k \notin DOMAIN live})
        kept     == DOMAIN saved_ \cap DOMAIN live
        repaired == [k \in kept |-> reconcile_fields(saved_[k], live[k])]
        updated_ == sorted({k \in kept : fields_changed(saved_[k], live[k])})
        dirty    == removed # <<>>
    IN  [fetch   |-> "ok",
         live    |-> live,
         ret     |-> repaired,
         removed |-> removed,
         updated |-> updated_,
         file    |-> IF dirty THEN store_after(file, repaired, outcome) ELSE file,
         events  |-> log_removed_headers(removed, log_ok)
                     \o (IF dirty
                         THEN save_event(repaired, outcome)
                              \o <<[type |-> "report", removed |-> removed,
                                    updated |-> updated_, ok |-> send_ok]>>
                         ELSE <<>>)]

\* validate_snapshot after a successful fetch.  The keys are visited in
\* ascending order (the order of a snapshot loaded from the key-sorted file).
validate_against(saved_, live, file, log_ok, outcome, send_ok) ==
    LET removed  == sorted({k \in DOMAIN saved_ : k \notin DOMAIN live})
        kept     == DOMAIN saved_ \cap DOMAIN live
        repaired == [k \in kept |-> reconcile_fields(saved_[k], live[k])]
        updated_ == sorted({k \in kept : fields_changed(saved_[k], live[k])})
        dirty    == removed # <<>> \/ updated_ # <<>>
    IN  IF \E k \in kept : ~is_dict(saved_[k])
        THEN \* saved_info.get raises in the loop: nothing is logged, saved or
             \* returned (ret is what the caller is left with)
             [fetch |-> "raised", live |-> live, ret |-> saved_, removed |-> <<>>,
              updated |-> <<>>, file |-> file, events |-> <<>>]
        ELSE
        [fetch   |-> "ok",
         live    |-> live,
         ret     |-> repaired,
         removed |-> removed,
         updated |-> updated_,
         file    |-> IF dirty THEN store_after(file, repaired, outcome) ELSE file,
         events  |-> log_removed_headers(removed, log_ok)
                     \o (IF dirty
                         THEN save_event(repaired, outcome)
                              \o <<[type |-> "report", removed |-> removed,
                                    updated |-> updated_, ok |-> send_ok]>>
                         ELSE <<>>)]

\* mutant: a failed fetch returns {} like the cold-start branch
validate_snapshot_drops_on_failure(saved_, file) ==
    IF saved_ = EmptySnapshot
    THEN {[fetch |-> "none", live |-> EmptySnapshot, ret |-> EmptySnapshot, removed |-> <<>>,
           updated |-> <<>>, file |-> file, events |-> <<>>]}
    ELSE {[fetch |-> "failed", live |-> EmptySnapshot, ret |-> EmptySnapshot, removed |-> <<>>,
           updated |-> <<>>, file |-> file, events |-> <<>>]}
         \cup
         {validate_against(saved_, live_, file, log_ok, outcome, send_ok) :
            live_ \in FetchResults, log_ok \in BOOLEAN,
            outcome \in SaveOutcomes, send_ok \in BOOLEAN}

\* mutant: an empty snapshot is validated against a fetch like any other
validate_snapshot_fetches_when_empty(saved_, file) ==
    {[fetch |-> "failed", live |-> EmptySnapshot, ret |-> saved_, removed |-> <<>>,
      updated |-> <<>>, file |-> file, events |-> <<>>]}
    \cup
    {validate_against(saved_, live_, file, log_ok, outcome, send_ok) :
       live_ \in FetchResults, log_ok \in BOOLEAN,
       outcome \in SaveOutcomes, send_ok \in BOOLEAN}

\* every way one call validate_snapshot(saved_) can go, the file being `file`
validate_snapshot(saved_, file) ==
    IF saved_ = EmptySnapshot
    THEN {[fetch |-> "none", live |-> EmptySnapshot, ret |-> EmptySnapshot, removed |-> <<>>,
           updated |-> <<>>, file |-> file, events |-> <<>>]}
    ELSE {[fetch |-> "failed", live |-> EmptySnapshot, ret |-> saved_, removed |-> <<>>,
           updated |-> <<>>, file |-> file, events |-> <<>>]}
         \cup
         {validate_against(saved_, live, file, log_ok, outcome, send_ok) :
            live \in FetchResults, log_ok \in BOOLEAN,
            outcome \in SaveOutcomes, send_ok \in BOOLEAN}

\* ----------------------------------------------------------------- state
VARIABLES
    variant,       \* "cron" (run_once per process) or "watcher" (watcher_loop + bot)
    disk,          \* what the snapshot file loads as
    saved,         \* run_once: the loaded snapshot; watcher_loop: its `saved`
    wpc,           \* position of the watcher thread
    vpc,           \* position of the cmd_validate worker thread
    vsaved,        \* the snapshot cmd_validate loaded
    \* The operation that has just completed, "idle" when none is on show.
    \* Observe clears this record before the next operation starts, so every
    \* completed operation is a state of its own; it reads and writes nothing
    \* of the program, so the alternation loses no interleaving.
    op,
    fetch,         \* its fetch: "none", "ok", "failed", or "raised" when the
                   \* operation raised after a fetch that succeeded
    live,          \* what build_live_snapshot returned to it
    old,           \* the snapshot it started from
    current,       \* the snapshot it produced (merged / repaired)
    new_keys,      \* its new_keys
    removed_keys,  \* its removed_keys (run_once) / removed (validate_snapshot)
    updated,       \* its updated (validate_snapshot)
    now_str,       \* its now_str
    events,        \* what it sent, logged and saved, in order
    sender,        \* update.effective_user.id of the /validate being handled
    \* History, read by no action: the keys run_once has sent (or tried to
    \* send) an alert for and that every successful fetch since has held.
    alerted,
    \* one call of build_live_snapshot / build_current_matches_snapshot
    npc,               \* its position: "idle", "fetched", "grouping", "done"
    questions,         \* what fetch_questions returned
    require_approved,  \* its argument
    candidates,        \* the records that passed the filter
    idx,               \* how many candidates the grouping loop has processed
    groups             \* its `groups`

\* the program's state
svars == <<variant, disk, saved, wpc, vpc, vsaved, op, fetch, live, old, current,
           new_keys, removed_keys, updated, now_str, events, sender, alerted>>

\* the state of the normalizer call
nvars == <<npc, questions, require_approved, candidates, idx, groups>>

vars == <<svars, nvars>>

\* no call of the normalizer is on show
NIdle ==
    /\ npc = "idle"
    /\ questions = <<>>
    /\ require_approved = REQUIRE_APPROVED
    /\ candidates = <<>>
    /\ idx = 0
    /\ groups = EmptySnapshot

\* a snapshot as an earlier run at time t left it
stamped(snap, t) == [k \in DOMAIN snap |-> [snap[k] EXCEPT !.first_detected_at = t]]

\* The snapshot file at start: missing, written by an earlier run, or
\* holding records without first_detected_at.
InitialStores ==
    {EmptySnapshot}
    \cup {stamped(s, 1) : s \in FetchResults}
    \cup {s \in FetchResults : Cardinality(DOMAIN s) = 1 /\ \A k \in DOMAIN s : Len(s[k].options) = 1}

Init ==
    /\ variant \in {"cron", "watcher"}
    /\ disk \in InitialStores
    /\ saved = EmptySnapshot
    /\ wpc = "start"
    /\ vpc = "idle"
    /\ vsaved = EmptySnapshot
    /\ op = "idle"
    /\ fetch = "none"
    /\ live = EmptySnapshot
    /\ old = EmptySnapshot
    /\ current = EmptySnapshot
    /\ new_keys = <<>>
    /\ removed_keys = <<>>
    /\ updated = <<>>
    /\ now_str = NoTime
    /\ events = <<>>
    /\ sender = IF vpc = "loaded" THEN ADMIN_CHAT_ID ELSE NoSender
    /\ alerted = {}
    /\ NIdle

\* the operation wrote the snapshot file
Wrote(evs) == \E i \in DOMAIN evs : evs[i].type = "save" /\ evs[i].outcome = "ok"

\* ------------------------------------------------------- cron: run_once
RunOnceFetchFails ==
    /\ op = "idle"
    /\ variant = "cron"
    /\ saved' = disk
    /\ op' = "run_once" /\ fetch' = "failed" /\ live' = EmptySnapshot
    /\ old' = disk /\ current' = EmptySnapshot
    /\ new_keys' = <<>> /\ removed_keys' = <<>> /\ updated' = <<>>
    /\ events' = <<>>
    /\ UNCHANGED <<variant, disk, wpc, vpc, vsaved, now_str>>
    /\ UNCHANGED nvars
    /\ UNCHANGED <<sender, alerted>>

\* mutant: a key whose alert failed is left out of the saved snapshot
RunOnce_drops_unsent ==
    /\ op = "idle"
    /\ variant = "cron"
    /\ \E fetched \in FetchResults, now_ \in Times, outcome \in SaveOutcomes :
       LET saved_       == disk
           new_         == new_keys_of(fetched, saved_)
           removed_     == removed_keys_of(saved_, fetched)
           merged       == stamp_new(carry_over(fetched, saved_), new_, now_)
       IN  \E failed \in SUBSET Range(new_), log_failed \in SUBSET Range(removed_) :
           LET kept == Restrict(merged, DOMAIN merged \ failed)
           IN  /\ saved' = saved_
               /\ op' = "run_once" /\ fetch' = "ok" /\ live' = fetched
               /\ old' = saved_ /\ current' = kept
               /\ new_keys' = new_ /\ removed_keys' = removed_ /\ updated' = <<>>
               /\ now_str' = now_
               /\ events' = notify_new(new_, failed)
                             \o log_removed(removed_, saved_, log_failed)
                             \o save_event(kept, outcome)
               /\ disk' = store_after(disk, kept, outcome)
               /\ alerted' = (alerted \cap DOMAIN fetched) \cup Range(new_)
    /\ UNCHANGED <<variant, wpc, vpc, vsaved>>
    /\ UNCHANGED nvars
    /\ UNCHANGED sender

RunOnce ==
    /\ op = "idle"
    /\ variant = "cron"
    /\ \E fetched \in FetchResults, now_ \in Times, outcome \in SaveOutcomes :
       LET saved_       == disk
           new_         == new_keys_of(fetched, saved_)
           removed_     == removed_keys_of(saved_, fetched)
           merged       == stamp_new(carry_over(fetched, saved_), new_, now_)
       IN  \E failed \in SUBSET Range(new_), log_failed \in SUBSET Range(removed_) :
           /\ saved' = saved_
           /\ op' = "run_once" /\ fetch' = "ok" /\ live' = fetched
           /\ old' = saved_ /\ current' = merged
           /\ new_keys' = new_ /\ removed_keys' = removed_ /\ updated' = <<>>
           /\ now_str' = now_
           /\ events' = notify_new(new_, failed)
                         \o log_removed(removed_, saved_, log_failed)
                         \o save_event(merged, outcome)
           /\ disk' = store_after(disk, merged, outcome)
           /\ alerted' = (alerted \cap DOMAIN fetched) \cup Range(new_)
    /\ UNCHANGED <<variant, wpc, vpc, vsaved>>
    /\ UNCHANGED nvars
    /\ UNCHANGED sender

\* ------------------------------------------- watcher: watcher_loop thread
\* saved = load_snapshot()
WLoad ==
    /\ op = "idle"
    /\ variant = "watcher" /\ wpc = "start"
    /\ saved' = disk
    /\ wpc' = "init_validate"
    /\ op' = "load" /\ fetch' = "none" /\ live' = EmptySnapshot
    /\ old' = EmptySnapshot /\ current' = disk
    /\ new_keys' = <<>> /\ removed_keys' = <<>> /\ updated' = <<>>
    /\ events' = <<>>
    /\ UNCHANGED <<variant, disk, vpc, vsaved, now_str>>
    /\ UNCHANGED nvars
    /\ UNCHANGED <<sender, alerted>>

\* saved = validate_snapshot(saved): at start (outside the try) and, when the
\* validation interval has elapsed, at the end of a cycle
WValidate ==
    /\ op = "idle"
    /\ variant = "watcher" /\ wpc \in {"init_validate", "periodic"}
    /\ \E r \in validate_snapshot(saved, disk) :
        /\ saved' = r.ret /\ disk' = r.file
        /\ op' = "validate" /\ fetch' = r.fetch /\ live' = r.live
        /\ old' = saved /\ current' = r.ret
        /\ new_keys' = <<>> /\ removed_keys' = r.removed /\ updated' = r.updated
        /\ events' = r.events
        \* the initial validation is outside the loop's try: an exception
        \* ends the thread; the periodic one is inside it
        /\ wpc' = IF r.fetch = "raised" /\ wpc = "init_validate" THEN "dead" ELSE "loop"
    /\ UNCHANGED <<variant, vpc, vsaved, now_str>>
    /\ UNCHANGED nvars
    /\ UNCHANGED <<sender, alerted>>

\* mutant: a failed fetch is taken for an empty snapshot and saved
WCycleFetchFails_saves_empty ==
    /\ op = "idle"
    /\ variant = "watcher" /\ wpc = "loop"
    /\ op' = "cycle" /\ fetch' = "failed" /\ live' = EmptySnapshot
    /\ old' = saved /\ current' = EmptySnapshot
    /\ new_keys' = <<>> /\ removed_keys' = <<>> /\ updated' = <<>>
    /\ events' = save_event(EmptySnapshot, "ok")
    /\ disk' = EmptySnapshot /\ saved' = EmptySnapshot
    /\ UNCHANGED <<variant, wpc, vpc, vsaved, now_str>>
    /\ UNCHANGED nvars
    /\ UNCHANGED <<sender, alerted>>

\* one iteration whose build_live_snapshot raises: the except logs, then sleep
WCycleFetchFails ==
    /\ op = "idle"
    /\ variant = "watcher" /\ wpc = "loop"
    /\ op' = "cycle" /\ fetch' = "failed" /\ live' = EmptySnapshot
    /\ old' = saved /\ current' = EmptySnapshot
    /\ new_keys' = <<>> /\ removed_keys' = <<>> /\ updated' = <<>>
    /\ events' = <<>>
    /\ UNCHANGED <<variant, disk, saved, wpc, vpc, vsaved, now_str>>
    /\ UNCHANGED nvars
    /\ UNCHANGED <<sender, alerted>>

\* mutant: the snapshot is saved before the alerts are sent
WCycle_saves_first ==
    /\ op = "idle"
    /\ variant = "watcher" /\ wpc = "loop"
    /\ \E fetched \in FetchResults, now_ \in Times, outcome \in SaveOutcomes,
          due \in BOOLEAN :
       LET new_         == new_keys_of(fetched, saved)
           merged       == stamp_new(carry_over(fetched, saved), new_, now_)
       IN  \E failed \in SUBSET Range(new_) :
           /\ op' = "cycle" /\ fetch' = "ok" /\ live' = fetched
           /\ old' = saved /\ current' = merged
           /\ new_keys' = new_ /\ removed_keys' = <<>> /\ updated' = <<>>
           /\ now_str' = now_
           /\ events' = save_event(merged, outcome)
                         \o (IF new_ # <<>>
                             THEN notify_new(new_, failed)
                             ELSE <<[type |-> "heartbeat"]>>)
           /\ disk' = store_after(disk, merged, outcome)
           /\ saved' = merged
           /\ wpc' = IF due THEN "periodic" ELSE "loop"
    /\ UNCHANGED <<variant, vpc, vsaved>>
    /\ UNCHANGED nvars
    /\ UNCHANGED <<sender, alerted>>

\* one iteration from build_live_snapshot to saved = current; `due` is
\* now_ts - last_validation >= VALIDATION_INTERVAL_SECONDS
WCycle ==
    /\ op = "idle"
    /\ variant = "watcher" /\ wpc = "loop"
    /\ \E fetched \in FetchResults, now_ \in Times, outcome \in SaveOutcomes,
          due \in BOOLEAN :
       LET new_         == new_keys_of(fetched, saved)
           merged       == stamp_new(carry_over(fetched, saved), new_, now_)
       IN  \E failed \in SUBSET Range(new_) :
           /\ \A k \in DOMAIN fetched \cap DOMAIN saved : is_dict(saved[k])
           /\ op' = "cycle" /\ fetch' = "ok" /\ live' = fetched
           /\ old' = saved /\ current' = merged
           /\ new_keys' = new_ /\ removed_keys' = <<>> /\ updated' = <<>>
           /\ now_str' = now_
           /\ events' = (IF new_ # <<>>
                          THEN notify_new(new_, failed)
                          ELSE <<[type |-> "heartbeat"]>>)
                         \o save_event(merged, outcome)
           /\ disk' = store_after(disk, merged, outcome)
           /\ saved' = merged
           /\ wpc' = IF due THEN "periodic" ELSE "loop"
    /\ UNCHANGED <<variant, vpc, vsaved>>
    /\ UNCHANGED nvars
    /\ UNCHANGED <<sender, alerted>>

\* one iteration in which `"first_detected_at" in saved[k]` raises on a saved
\* value that is not an object: the except logs, then sleep
WCycleRaises ==
    /\ op = "idle"
    /\ variant = "watcher" /\ wpc = "loop"
    /\ \E fetched \in FetchResults :
        /\ \E k \in DOMAIN fetched \cap DOMAIN saved : ~is_dict(saved[k])
        /\ live' = fetched
    /\ op' = "cycle" /\ fetch' = "raised"
    /\ old' = saved /\ current' = EmptySnapshot
    /\ new_keys' = <<>> /\ removed_keys' = <<>> /\ updated' = <<>>
    /\ events' = <<>>
    /\ UNCHANGED <<variant, disk, saved, wpc, vpc, vsaved, now_str>>
    /\ UNCHANGED nvars
    /\ UNCHANGED <<sender, alerted>>

\* ------------------------------------------------ watcher: cmd_validate
\* a /validate from someone else than the admin
CmdValidateRefused ==
    /\ op = "idle"
    /\ variant = "watcher" /\ vpc = "idle"
    /\ \E u \in Users : u # ADMIN_CHAT_ID /\ sender' = u
    /\ op' = "cmd_refused" /\ fetch' = "none" /\ live' = EmptySnapshot
    /\ old' = disk /\ current' = disk
    /\ new_keys' = <<>> /\ removed_keys' = <<>> /\ updated' = <<>>
    /\ events' = <<>>
    /\ UNCHANGED <<variant, disk, saved, wpc, vpc, vsaved, now_str>>
    /\ UNCHANGED nvars
    /\ UNCHANGED alerted

\* mutant: the handler does not look at the sender
CmdValidateLoad_anyone ==
    /\ op = "idle"
    /\ variant = "watcher" /\ vpc = "idle"
    /\ \E u \in Users : sender' = u
    /\ vsaved' = disk /\ vpc' = "loaded"
    /\ op' = "cmd_load" /\ fetch' = "none" /\ live' = EmptySnapshot
    /\ old' = EmptySnapshot /\ current' = disk
    /\ new_keys' = <<>> /\ removed_keys' = <<>> /\ updated' = <<>>
    /\ events' = <<>>
    /\ UNCHANGED <<variant, disk, saved, wpc, now_str>>
    /\ UNCHANGED nvars
    /\ UNCHANGED alerted

\* a /validate from the admin: the worker thread runs load_snapshot()
CmdValidateLoad ==
    /\ op = "idle"
    /\ variant = "watcher" /\ vpc = "idle"
    /\ \E u \in Users : u = ADMIN_CHAT_ID /\ sender' = u
    /\ vsaved' = disk /\ vpc' = "loaded"
    /\ op' = "cmd_load" /\ fetch' = "none" /\ live' = EmptySnapshot
    /\ old' = EmptySnapshot /\ current' = disk
    /\ new_keys' = <<>> /\ removed_keys' = <<>> /\ updated' = <<>>
    /\ events' = <<>>
    /\ UNCHANGED <<variant, disk, saved, wpc, now_str>>
    /\ UNCHANGED nvars
    /\ UNCHANGED alerted

\* ... and then validate_snapshot on what it loaded
CmdValidateRun ==
    /\ op = "idle"
    /\ variant = "watcher" /\ vpc = "loaded"
    /\ \E r \in validate_snapshot(vsaved, disk) :
        /\ disk' = r.file
        /\ op' = "cmd_validate" /\ fetch' = r.fetch /\ live' = r.live
        /\ old' = vsaved /\ current' = r.ret
        /\ new_keys' = <<>> /\ removed_keys' = r.removed /\ updated' = r.updated
        /\ events' = r.events
    /\ vpc' = "idle" /\ vsaved' = EmptySnapshot
    /\ UNCHANGED <<variant, saved, wpc, now_str>>
    /\ UNCHANGED nvars
    /\ UNCHANGED <<sender, alerted>>

\* the completed operation goes out of view: run_once has returned, the
\* loop sleeps, the handler has replied
Observe ==
    /\ op # "idle"
    /\ op' = "idle" /\ fetch' = "none" /\ live' = EmptySnapshot
    /\ old' = EmptySnapshot /\ current' = EmptySnapshot
    /\ new_keys' = <<>> /\ removed_keys' = <<>> /\ updated' = <<>>
    /\ now_str' = NoTime /\ events' = <<>>
    /\ UNCHANGED <<variant, disk, saved, wpc, vpc, vsaved>>
    /\ UNCHANGED nvars
    \* the handler of a refused or completed /validate has returned
    /\ sender' = IF vpc = "loaded" THEN sender ELSE NoSender
    /\ UNCHANGED alerted

Next ==
    \/ RunOnceFetchFails
    \/ RunOnce
    \/ WLoad
    \/ WValidate
    \/ WCycleFetchFails
    \/ WCycle
    \/ CmdValidateRefused
    \/ CmdValidateLoad
    \/ CmdValidateRun
    \/ Observe

Spec == Init /\ [][Next]_vars

\* the program started with no snapshot file
InitFresh == Init /\ disk = EmptySnapshot

SpecFresh == InitFresh /\ [][Next]_vars

\* ------------------------------------------------- one pass from any store
\* Every snapshot the program can hold: a fetched snapshot whose keys were
\* first detected at any times (or carry no first_detected_at).
Stores ==
    UNION {{[k \in DOMAIN s |-> [s[k] EXCEPT !.first_detected_at = f[k]]] :
                f \in [DOMAIN s -> Times \cup {NoFda}]} : s \in FetchResults}

\* The program about to run one reconciliation cycle or one validation pass:
\* run_once on any snapshot file; watcher_loop with any snapshot in memory,
\* the file holding the same or nothing, at the top of an iteration or
\* before a validation; cmd_validate having loaded the file or not.
InitPass ==
    /\ variant \in {"cron", "watcher"}
    /\ IF variant = "cron"
       THEN /\ disk \in Stores
            /\ saved = EmptySnapshot
            /\ wpc = "start" /\ vpc = "idle"
       ELSE /\ saved \in Stores
            /\ disk \in {saved, EmptySnapshot}
            /\ wpc \in {"loop", "periodic"}
            /\ vpc \in {"idle", "loaded"}
    /\ vsaved = IF vpc = "loaded" THEN disk ELSE EmptySnapshot
    /\ op = "idle"
    /\ fetch = "none"
    /\ live = EmptySnapshot
    /\ old = EmptySnapshot
    /\ current = EmptySnapshot
    /\ new_keys = <<>>
    /\ removed_keys = <<>>
    /\ updated = <<>>
    /\ now_str = NoTime
    /\ events = <<>>
    /\ sender = IF vpc = "loaded" THEN ADMIN_CHAT_ID ELSE NoSender
    /\ alerted = {}
    /\ NIdle

NextPass ==
    \/ RunOnceFetchFails
    \/ RunOnce
    \/ WValidate
    \/ WCycleFetchFails
    \/ WCycle
    \/ CmdValidateRun

\* one operation, started in any state of InitPass
SpecPass == InitPass /\ [][NextPass]_vars

\* InitPass leaves out no snapshot that Spec reaches
StoresCover == saved \in Stores /\ disk \in Stores /\ vsaved \in Stores

\* ---------------------------------------------------- one validation pass
\* the end time a market had when an earlier run stored it
EarlierEnd == 6

\* Every snapshot a validation pass can be given: a snapshot of an earlier
\* run (first detected at some time, or without first_detected_at) in which
\* any market may since have changed its end time, and in which any record
\* may carry is_approved false (a file that REQUIRE_APPROVED did not filter).
ValidatorStores ==
    UNION {{[k \in DOMAIN s |->
                [s[k] EXCEPT !.first_detected_at = t,
                             !.questionEndTime = IF e[k] THEN EarlierEnd ELSE @,
                             !.is_approved = a[k]]] :
                e \in [DOMAIN s -> BOOLEAN], a \in [DOMAIN s -> BOOLEAN],
                t \in Times \cup {NoFda}} : s \in FetchResults}

\* The watcher about to validate its snapshot (at start, or when the interval
\* has elapsed), or cmd_validate about to validate the file it has loaded.
\* The file holds the snapshot; after a save that could not open the file it
\* may still hold an older one while the watcher's snapshot is empty.
InitValidate ==
    /\ variant = "watcher"
    /\ saved \in ValidatorStores
    /\ disk \in {saved} \cup {s \in Stores : saved = EmptySnapshot}
    /\ \/ wpc \in {"init_validate", "periodic"} /\ vpc = "idle"
       \/ wpc = "loop" /\ vpc = "loaded"
    /\ vsaved = IF vpc = "loaded" THEN disk ELSE EmptySnapshot
    /\ op = "idle"
    /\ fetch = "none"
    /\ live = EmptySnapshot
    /\ old = EmptySnapshot
    /\ current = EmptySnapshot
    /\ new_keys = <<>>
    /\ removed_keys = <<>>
    /\ updated = <<>>
    /\ now_str = NoTime
    /\ events = <<>>
    /\ sender = IF vpc = "loaded" THEN ADMIN_CHAT_ID ELSE NoSender
    /\ alerted = {}
    /\ NIdle

NextValidate ==
    \/ WValidate
    \/ CmdValidateRun

\* one validation pass, started in any state of InitValidate
SpecValidate == InitValidate /\ [][NextValidate]_vars

\* ------------------------------------------- a validation pass run twice
\* validate_snapshot called on what a successful validate_snapshot returned,
\* build_live_snapshot returning the same snapshot as in the first call (or
\* not being called, when the first call returned {}).  `old` stays the
\* snapshot the first call started from, the file is what the first call
\* left.
Revalidate ==
    /\ op \in {"validate", "cmd_validate"} /\ fetch = "ok"
    /\ \E r \in validate_snapshot(current, disk) :
        /\ r.fetch = "none" \/ (r.fetch \in {"ok", "raised"} /\ r.live = live)
        /\ disk' = r.file
        /\ saved' = IF op = "validate" THEN r.ret ELSE saved
        /\ op' = "revalidate" /\ fetch' = r.fetch /\ live' = r.live
        /\ current' = r.ret
        /\ new_keys' = <<>> /\ removed_keys' = r.removed /\ updated' = r.updated
        /\ events' = r.events
    /\ UNCHANGED <<variant, wpc, vpc, vsaved, old, now_str>>
    /\ UNCHANGED nvars
    /\ UNCHANGED <<sender, alerted>>

NextRevalidate ==
    \/ WValidate
    \/ CmdValidateRun
    \/ Revalidate

SpecRevalidate == InitValidate /\ [][NextRevalidate]_vars

\* --------------------------------------------------- one normalizer call
\* an option of market k that ends after the fetch, with side ids y and n
Option(k, i, y, n) ==
    [Question(k, NowTs + 1, y, "Football") EXCEPT !.questionId = 20 * k + i, !.no = n]

\* Raw option records of every kind the filter and the grouping loop tell
\* apart, each with a questionId of its own: for every market a tradable
\* option and one whose yes side has the id "0"; for the first market an
\* option without a no side, and options that differ from the tradable one
\* in one field (category, phrase, settlement, end time, header, parent id).
RawOptions ==
    {Option(k, 1, "17", "17") : k \in Keys}
    \cup {Option(k, 2, "0", "17") : k \in Keys}
    \cup {Option(1, 3, "17", ""),
          [Option(1, 4, "17", "17") EXCEPT !.category = "basketball"],
          [Option(1, 5, "17", "17") EXCEPT !.category = "football"],
          [Option(1, 6, "17", "17") EXCEPT !.hasPhrase = FALSE],
          [Option(1, 7, "17", "17") EXCEPT !.isSettled = TRUE],
          [Option(1, 8, "17", "17") EXCEPT !.questionEndTime = BadEnd],
          [Option(1, 9, "17", "17") EXCEPT !.questionEndTime = NoEnd],
          [Option(1, 10, "17", "17") EXCEPT !.questionEndTime = NowTs],
          [Option(1, 11, "17", "17") EXCEPT !.questionEndTime = NowTs - 1],
          [Option(1, 12, "17", "17") EXCEPT !.parentQuestionHeader = 0],
          [Option(1, 13, "17", "17") EXCEPT !.parentQuestionId = 0]}

\* fetch_questions has returned; nothing else of the program moves
InitNorm ==
    /\ variant \in {"cron", "watcher"}
    /\ disk = EmptySnapshot
    /\ saved = EmptySnapshot
    /\ wpc = "start"
    /\ vpc = "idle"
    /\ vsaved = EmptySnapshot
    /\ op = "idle"
    /\ fetch = "none"
    /\ live = EmptySnapshot
    /\ old = EmptySnapshot
    /\ current = EmptySnapshot
    /\ new_keys = <<>>
    /\ removed_keys = <<>>
    /\ updated = <<>>
    /\ now_str = NoTime
    /\ events = <<>>
    /\ sender = IF vpc = "loaded" THEN ADMIN_CHAT_ID ELSE NoSender
    /\ alerted = {}
    /\ npc = "fetched"
    /\ questions \in SeqsUpTo(RawOptions, MaxQuestions)
    /\ require_approved \in BOOLEAN
    /\ candidates = <<>>
    /\ idx = 0
    /\ groups = EmptySnapshot

\* candidates = [q for q in questions if is_upcoming_match_option(q)]
NFilter ==
    /\ npc = "fetched"
    /\ candidates' = SelectSeq(questions, LAMBDA q : is_upcoming_match_option(q, NowTs))
    /\ npc' = "grouping"
    /\ UNCHANGED <<questions, require_approved, idx, groups>>
    /\ UNCHANGED svars

\* one iteration of `for q in candidates`
NGroup ==
    /\ npc = "grouping" /\ idx < Len(candidates)
    /\ groups' = add_question(groups, candidates[idx + 1])
    /\ idx' = idx + 1
    /\ UNCHANGED <<npc, questions, require_approved, candidates>>
    /\ UNCHANGED svars

\* after the loop: the require_approved filter, and return groups
NApprove ==
    /\ npc = "grouping" /\ idx = Len(candidates)
    /\ groups' = IF require_approved
                 THEN Restrict(groups, {k \in DOMAIN groups : groups[k].is_approved})
                 ELSE groups
    /\ npc' = "done"
    /\ UNCHANGED <<questions, require_approved, candidates, idx>>
    /\ UNCHANGED svars

NextNorm ==
    \/ NFilter
    \/ NGroup
    \/ NApprove

\* one call of the normalizer on any short sequence of raw records
SpecNorm == InitNorm /\ [][NextNorm]_vars

\* the call returns what build_live_snapshot, as the cycles use it, computes
NormalizerAgrees ==
    npc = "done" => groups = build_live_snapshot(questions, NowTs, require_approved)

\* ------------------------------------------ a file with unexpected content
\* Snapshot files of an earlier run in which some values are not objects
\* (edited by hand, or written by another program): valid JSON with a
\* mapping at the top, which load_snapshot returns as it is.
UnexpectedStores ==
    UNION {{[k \in DOMAIN s |-> IF k \in B THEN NotADict ELSE stamped(s, 1)[k]] :
                B \in SUBSET DOMAIN s \ {{}}} : s \in FetchResults}

\* the long-running variant, started on any snapshot file
InitUnexpected ==
    /\ variant = "watcher"
    /\ disk \in InitialStores \cup UnexpectedStores
    /\ saved = EmptySnapshot
    /\ wpc = "start"
    /\ vpc = "idle"
    /\ vsaved = EmptySnapshot
    /\ op = "idle"
    /\ fetch = "none"
    /\ live = EmptySnapshot
    /\ old = EmptySnapshot
    /\ current = EmptySnapshot
    /\ new_keys = <<>>
    /\ removed_keys = <<>>
    /\ updated = <<>>
    /\ now_str = NoTime
    /\ events = <<>>
    /\ sender = IF vpc = "loaded" THEN ADMIN_CHAT_ID ELSE NoSender
    /\ alerted = {}
    /\ NIdle

NextUnexpected ==
    \/ WLoad
    \/ WValidate
    \/ WCycleFetchFails
    \/ WCycle
    \/ WCycleRaises
    \/ CmdValidateRefused
    \/ CmdValidateLoad
    \/ CmdValidateRun
    \/ Observe

SpecUnexpected == InitUnexpected /\ [][NextUnexpected]_vars

\* ------------------------------------------------------ /validate commands
\* the bot with any snapshot in the file, the watcher asleep
InitCommand ==
    /\ variant = "watcher"
    /\ disk \in Stores
    /\ saved = disk
    /\ wpc = "loop"
    /\ vpc = "idle"
    /\ vsaved = EmptySnapshot
    /\ op = "idle"
    /\ fetch = "none"
    /\ live = EmptySnapshot
    /\ old = EmptySnapshot
    /\ current = EmptySnapshot
    /\ new_keys = <<>>
    /\ removed_keys = <<>>
    /\ updated = <<>>
    /\ now_str = NoTime
    /\ events = <<>>
    /\ sender = NoSender
    /\ alerted = {}
    /\ NIdle

NextCommand ==
    \/ CmdValidateRefused
    \/ CmdValidateLoad
    \/ CmdValidateRun
    \/ Observe

\* any sequence of /validate commands
SpecCommand == InitCommand /\ [][NextCommand]_vars

\* ------------------------------------------------- the single-run variant
\* run_once started again and again (by cron) on the file the runs leave
InitCron == Init /\ variant = "cron"

NextCron ==
    \/ RunOnceFetchFails
    \/ RunOnce
    \/ Observe

SpecCron == InitCron /\ [][NextCron]_vars

\* ================================================================ claims
\* a reconciliation cycle (run_once, or one iteration of watcher_loop) whose
\* fetch succeeded has just completed
CycleDone == op \in {"run_once", "cycle"} /\ fetch = "ok"

\* the keys of the events of one type, in the order of the events
RECURSIVE KeysOf(_, _)
KeysOf(evs, type) ==
    IF evs = <<>> THEN <<>>
    ELSE (IF Head(evs).type = type THEN <<Head(evs).key>> ELSE <<>>)
         \o KeysOf(Tail(evs), type)

Count(evs, type, k) == Cardinality({i \in DOMAIN evs : evs[i].type = type /\ evs[i].key = k})

Saves(evs) == {i \in DOMAIN evs : evs[i].type = "save"}

\* C1: Timestamp immutability. After every reconciliation cycle, every key
\* that is in the old snapshot and in the merged snapshot has the
\* first_detected_at in the merged snapshot that it had in the old one.
C1_TimestampImmutability ==
    CycleDone =>
        \A k \in DOMAIN old \cap DOMAIN current :
            current[k].first_detected_at = old[k].first_detected_at

\* a cycle that stamps a new key with another time than a surviving key has
C1_Witness ==
    /\ CycleDone /\ op = "cycle"
    /\ new_keys # <<>>
    /\ \E k \in DOMAIN old \cap DOMAIN current :
        old[k].first_detected_at \in Times /\ old[k].first_detected_at # now_str

\* C2: Serialized snapshot access. Whenever the on-demand validation writes
\* the snapshot file, the file still holds what that pass loaded: no write of
\* the watcher loop has come between its load and its save.
C2_SerializedSnapshotAccess ==
    [][(vpc = "loaded" /\ vpc' = "idle" /\ Wrote(events')) => disk = vsaved]_vars

\* C3: Removal logging. In every cycle whose fetch succeeds, one removal-log
\* entry with the old record is written for each key that is in the old
\* snapshot and not in the new one, and none for any other key.
C3_RemovalLogging ==
    CycleDone =>
        \A k \in Keys :
            IF k \in DOMAIN old /\ k \notin DOMAIN live
            THEN /\ Count(events, "removed", k) = 1
                 /\ \A i \in DOMAIN events :
                      (events[i].type = "removed" /\ events[i].key = k)
                          => events[i].data = old[k]
            ELSE Count(events, "removed", k) = 0

\* C4: New-key origination. After a cycle every key of new_keys has the
\* cycle's one timestamp as first_detected_at, a real timestamp, and was not
\* in the old snapshot; every other key of the merged snapshot has what the
\* old snapshot had for it.
C4_NewKeyOrigination ==
    CycleDone =>
        /\ now_str \in Times
        /\ \A k \in Range(new_keys) :
            /\ k \in DOMAIN current /\ k \notin DOMAIN old
            /\ current[k].first_detected_at = now_str
        /\ \A k \in DOMAIN current \ Range(new_keys) :
            current[k].first_detected_at =
                (IF k \in DOMAIN old THEN old[k].first_detected_at ELSE NoFda)

\* a cycle with a new key and a surviving key that was stamped at another time
C4_Witness ==
    /\ CycleDone /\ op = "run_once"
    /\ new_keys # <<>>
    /\ \E k \in DOMAIN current \ Range(new_keys) :
        current[k].first_detected_at \in Times /\ current[k].first_detected_at # now_str

\* C5: Change set and merge. After a cycle whose fetch succeeded new_keys is
\* keys(new) - keys(old), removed_keys (run_once) is keys(old) - keys(new),
\* and the cycle saves once, a snapshot with exactly the keys of the fresh
\* snapshot, which is what the file then holds when the write went through.
C5_ChangeSetAndMerge ==
    CycleDone =>
        /\ Range(new_keys) = DOMAIN live \ DOMAIN old
        /\ Len(new_keys) = Cardinality(Range(new_keys))
        /\ op = "run_once" =>
            /\ Range(removed_keys) = DOMAIN old \ DOMAIN live
            /\ Len(removed_keys) = Cardinality(Range(removed_keys))
        /\ Cardinality(Saves(events)) = 1
        /\ \A i \in Saves(events) :
            /\ DOMAIN events[i].data = DOMAIN live
            /\ events[i].outcome = "ok" => DOMAIN disk = DOMAIN live

\* a run in which one key came and another went, and the save went through
C5_Witness ==
    /\ CycleDone /\ op = "run_once"
    /\ new_keys # <<>> /\ removed_keys # <<>>
    /\ \E i \in Saves(events) : events[i].outcome = "ok"
    /\ disk = current

\* C6: Idempotence. A cycle whose fresh snapshot has the keys of the old one
\* finds no new and no removed key, sends no alert, writes no removal-log
\* entry and saves a snapshot with the keys and first_detected_at of the old.
C6_Idempotence ==
    (CycleDone /\ DOMAIN live = DOMAIN old) =>
        /\ new_keys = <<>> /\ removed_keys = <<>>
        /\ KeysOf(events, "alert") = <<>>
        /\ KeysOf(events, "removed") = <<>>
        /\ \E i \in Saves(events) :
            /\ DOMAIN events[i].data = DOMAIN old
            /\ \A k \in DOMAIN old :
                events[i].data[k].first_detected_at = old[k].first_detected_at

\* such a cycle on a snapshot of two stamped keys
C6_Witness ==
    /\ CycleDone /\ DOMAIN live = DOMAIN old
    /\ Cardinality(DOMAIN old) = 2
    /\ \A k \in DOMAIN old : old[k].first_detected_at \in Times

\* C7: Notification plan. In a cycle the alerts attempted are one per key of
\* new_keys and no other, in ascending order of key.
C7_NotificationPlan ==
    CycleDone =>
        /\ KeysOf(events, "alert") = new_keys
        /\ \A i, j \in DOMAIN new_keys : i < j => new_keys[i] < new_keys[j]

\* a cycle with two new keys, alerted in ascending order
C7_Witness ==
    /\ CycleDone
    /\ Len(new_keys) = 2
    /\ KeysOf(events, "alert") = <<1, 2>>

\* C8: Fetch failure aborts only the current cycle. A cycle whose fetch fails
\* sends, logs and saves nothing and leaves the file and the watcher's
\* in-memory snapshot as they were, and the watcher loop is at its next cycle.
C8_FetchFailureAbortsCycle ==
    [][(op' \in {"run_once", "cycle"} /\ fetch' = "failed") =>
          /\ events' = <<>>
          /\ disk' = disk
          /\ variant = "watcher" => (saved' = saved /\ wpc' = "loop")]_vars

\* the watcher with a non-empty snapshot after a cycle whose fetch failed
C8_Witness ==
    /\ op = "cycle" /\ fetch = "failed"
    /\ saved # EmptySnapshot /\ disk # EmptySnapshot

\* C9: Notifier failure isolation. After an alert that failed, the alerts of
\* all remaining new keys are still attempted and the merged snapshot is saved.
C9_NotifierFailureIsolation ==
    CycleDone =>
        \A i \in DOMAIN events :
            (events[i].type = "alert" /\ ~events[i].ok) =>
                /\ \A k \in Range(new_keys) :
                     k > events[i].key =>
                        \E j \in DOMAIN events :
                            j > i /\ events[j].type = "alert" /\ events[j].key = k
                /\ \E j \in Saves(events) : j > i /\ events[j].data = current

\* a cycle with two new keys in which the first alert failed
C9_Witness ==
    /\ CycleDone
    /\ Len(new_keys) = 2
    /\ events[1].type = "alert" /\ ~events[1].ok

\* a validation pass by the watcher thread or by cmd_validate
ValidateDone == op \in {"validate", "cmd_validate"}

\* C10: Validator failure semantics. A validate_snapshot whose fetch fails
\* returns the snapshot it was given, field by field, and logs, saves and
\* reports nothing; the file is as it was.
C10_ValidatorFailure ==
    [][(op' \in {"validate", "cmd_validate"} /\ fetch' = "failed") =>
          /\ old' = (IF op' = "validate" THEN saved ELSE vsaved)
          /\ old' # EmptySnapshot
          /\ current' = old'
          /\ op' = "validate" => saved' = saved
          /\ events' = <<>>
          /\ disk' = disk]_vars

\* a validation of a two-key snapshot whose fetch failed
C10_Witness ==
    /\ ValidateDone /\ fetch = "failed"
    /\ Cardinality(DOMAIN old) = 2 /\ current = old

\* a validation pass whose fetch succeeded
ValidateOk == ValidateDone /\ fetch = "ok"

\* the three reconciled fields of a record
Reconciled(info) == <<info.questionEndTime, info.options, info.is_approved>>

\* C11: Validator field reconciliation. After a validation pass whose fetch
\* succeeded, every key of the saved and of the fresh snapshot has the end
\* time, the options and the approval flag of the fresh snapshot, in the
\* returned snapshot and in the file once written, and it is in `updated`
\* exactly when one of the three differed (the options as ordered sequences).
C11_FieldReconciliation ==
    ValidateOk =>
        /\ Range(updated) \subseteq DOMAIN old \cap DOMAIN live
        /\ Len(updated) = Cardinality(Range(updated))
        /\ \A k \in DOMAIN old \cap DOMAIN live :
            /\ k \in DOMAIN current
            /\ Reconciled(current[k]) = Reconciled(live[k])
            /\ Wrote(events) => Reconciled(disk[k]) = Reconciled(live[k])
            /\ k \in Range(updated) <=> Reconciled(old[k]) # Reconciled(live[k])

\* a pass that updates a key whose options differ in their order only
C11_Witness ==
    /\ ValidateOk
    /\ \E k \in Range(updated) :
        /\ old[k].questionEndTime = live[k].questionEndTime
        /\ old[k].is_approved = live[k].is_approved
        /\ Len(old[k].options) = Len(live[k].options)
        /\ old[k].options # live[k].options

\* C12: Validator frame. A validation pass leaves the first_detected_at of
\* every key it keeps as it was (absent stays absent), updated or not,
\* in the returned snapshot and in the file once written.
C12_ValidatorFrame ==
    ValidateDone =>
        \A k \in DOMAIN old \cap DOMAIN current :
            /\ current[k].first_detected_at = old[k].first_detected_at
            /\ Wrote(events) => disk[k].first_detected_at = old[k].first_detected_at

\* a pass that updates a key stamped by an earlier run and writes the file
C12_Witness ==
    /\ ValidateOk /\ Wrote(events)
    /\ \E k \in Range(updated) :
        old[k].first_detected_at \in Times /\ old[k].questionEndTime # live[k].questionEndTime

\* C13: Validator removal. After a validation pass whose fetch succeeded the
\* returned snapshot has exactly the keys of the saved snapshot that are in
\* the fresh one; `removed` lists the other keys of the saved snapshot, one
\* removal-log entry each, and no other key has one; no key is added.
C13_ValidatorRemoval ==
    ValidateOk =>
        /\ DOMAIN current = DOMAIN old \cap DOMAIN live
        /\ Range(removed_keys) = DOMAIN old \ DOMAIN live
        /\ KeysOf(events, "removed") = removed_keys
        /\ \A k \in Keys :
            Count(events, "removed", k) = IF k \in DOMAIN old /\ k \notin DOMAIN live THEN 1 ELSE 0
        /\ Wrote(events) => DOMAIN disk = DOMAIN old \cap DOMAIN live

\* a pass that drops one key, keeps another, and meets a live key that the
\* saved snapshot does not hold
C13_Witness ==
    /\ ValidateOk
    /\ removed_keys # <<>>
    /\ \/ current # EmptySnapshot
       \/ DOMAIN live \ DOMAIN old # {}

\* the report events of an operation
Reports(evs) == {i \in DOMAIN evs : evs[i].type = "report"}

\* C14: Validator persistence. A validation pass that ends with a removed or
\* an updated key saves the repaired snapshot once (the file holds it when the
\* write goes through) and then produces one report that lists the removed
\* and the updated keys of the pass.
C14_ValidatorPersistence ==
    (ValidateDone /\ (removed_keys # <<>> \/ updated # <<>>)) =>
        /\ Cardinality(Saves(events)) = 1
        /\ Cardinality(Reports(events)) = 1
        /\ \A i \in Saves(events) :
            /\ events[i].data = current
            /\ events[i].outcome = "ok" => disk = current
            /\ \A j \in Reports(events) : i < j
        /\ \A j \in Reports(events) :
            events[j].removed = removed_keys /\ events[j].updated = updated

\* a pass that removed nothing and updated a key, written to the file
C14_Witness ==
    /\ ValidateDone
    /\ removed_keys = <<>> /\ updated # <<>>
    /\ Wrote(events) /\ disk = current /\ disk # old

\* C15: Validator cold start. validate_snapshot on an empty snapshot fetches
\* nothing, writes no removal-log entry, saves and reports nothing (the file
\* stays as it is) and returns the empty snapshot.
C15_ValidatorColdStart ==
    [][(op' \in {"validate", "cmd_validate"} /\ old' = EmptySnapshot) =>
          /\ fetch' = "none"
          /\ events' = <<>>
          /\ current' = EmptySnapshot
          /\ disk' = disk]_vars

\* the watcher validated its empty snapshot while the file held a market
C15_Witness ==
    /\ op = "validate" /\ old = EmptySnapshot /\ fetch = "none"
    /\ saved = EmptySnapshot /\ disk # EmptySnapshot

\* every record of a snapshot carries is_approved true
Approved(snap) == \A k \in DOMAIN snap : snap[k].is_approved

\* C16: Approved-only invariant. With require_approved on, every group of a
\* fetched snapshot has is_approved true; and a pass (cycle or validation)
\* that starts with approved snapshots in the file and in memory, as the
\* empty ones are, leaves approved snapshots in the file and in memory.
C16_ApprovedOnly ==
    /\ REQUIRE_APPROVED => Approved(live)
    /\ Approved(disk) /\ Approved(saved) /\ Approved(vsaved) /\ Approved(current)

\* a cycle that wrote a market to the file, fetched from records in which
\* another market had no tradable option
C16_Witness ==
    /\ CycleDone /\ Wrote(events) /\ disk # EmptySnapshot
    /\ \E qs \in SeqsUpTo(RawQuestions, MaxQuestions) :
        /\ build_live_snapshot(qs, NowTs, TRUE) = live
        /\ ~Approved(build_live_snapshot(qs, NowTs, FALSE))

\* both side ids of a raw record are present, non-empty and not "0"
SidesPresent(q) == q.yes \notin {"", "0"} /\ q.no \notin {"", "0"}

\* the first n candidates that the grouping loop puts into group k
Grouped(k, n) ==
    {i \in 1..n : candidates[i].parentQuestionHeader = k /\ candidates[i].parentQuestionId # 0}

\* C17: Approval monotonicity. At every point of the grouping loop, whatever
\* the order of the records, a group is approved exactly when one of the
\* records put into it so far is tradable; and an iteration never takes the
\* approval of a group away.
C17_ApprovalMonotonicity ==
    /\ [](npc = "grouping" =>
            \A k \in DOMAIN groups :
                groups[k].is_approved <=> \E i \in Grouped(k, idx) : SidesPresent(candidates[i]))
    /\ [][(npc = "grouping" /\ npc' = "grouping") =>
            \A k \in DOMAIN groups :
                groups[k].is_approved => (k \in DOMAIN groups' /\ groups'[k].is_approved)]_vars

\* a group approved by its first record has taken a second, untradable one
C17_Witness ==
    /\ npc = "grouping" /\ idx = 2
    /\ \E k \in DOMAIN groups :
        /\ Grouped(k, idx) = {1, 2}
        /\ SidesPresent(candidates[1]) /\ ~SidesPresent(candidates[2])
        /\ groups[k].is_approved

\* the raw record at position i has an option in the returned snapshot
Contributes(i) ==
    \E k \in DOMAIN groups : \E j \in DOMAIN groups[k].options :
        groups[k].options[j].questionId = questions[i].questionId

\* the end time is non-numeric, missing, in the past or the current time
EndTimeExcluded(q) ==
    \/ q.questionEndTime = BadEnd
    \/ q.questionEndTime = NoEnd
    \/ q.questionEndTime < NowTs
    \/ q.questionEndTime = NowTs

\* the options of all groups together
RECURSIVE OptionCount(_)
OptionCount(K) ==
    IF K = {} THEN 0
    ELSE LET k == CHOOSE x \in K : TRUE
         IN  Len(groups[k].options) + OptionCount(K \ {k})

\* C18: Record filter. A raw record has an option in the returned snapshot
\* only if it is a football record with the phrase, not settled, whose end
\* time is an integer after the current time; and a record left out takes no
\* other with it: without the approval filter every record that meets these
\* conditions and names its market is in the snapshot, once per occurrence.
C18_RecordFilter ==
    npc = "done" =>
        /\ \A i \in DOMAIN questions :
            Contributes(i) =>
                /\ Lower(questions[i].category) = "football"
                /\ questions[i].hasPhrase
                /\ ~questions[i].isSettled
                /\ ~EndTimeExcluded(questions[i])
        /\ ~require_approved =>
            LET passing == {i \in DOMAIN questions :
                              /\ Lower(questions[i].category) = "football"
                              /\ questions[i].hasPhrase
                              /\ ~questions[i].isSettled
                              /\ ~EndTimeExcluded(questions[i])
                              /\ questions[i].parentQuestionHeader # 0
                              /\ questions[i].parentQuestionId # 0}
            IN  /\ \A i \in passing : Contributes(i)
                /\ OptionCount(DOMAIN groups) = Cardinality(passing)

\* a record with a non-numeric end time was left out and the next one grouped
C18_Witness ==
    /\ npc = "done" /\ Len(questions) = 2
    /\ questions[1].questionEndTime = BadEnd /\ ~Contributes(1)
    /\ Contributes(2)

C20_WatcherNeverDies == wpc # "dead"

\* a step of the /validate handler
CommandStep == {"cmd_refused", "cmd_load", "cmd_validate"}

\* C21: Admin-only on-demand validation. A /validate from anyone but the
\* admin is refused: nothing is loaded, fetched, logged, saved or reported and
\* the file, the watcher's snapshot and the worker stay as they are. Only
\* the admin's command loads the file and runs validate_snapshot, on the
\* snapshot that was loaded.
C21_AdminOnlyValidation ==
    [][/\ (op' \in CommandStep /\ sender' # ADMIN_CHAT_ID) =>
            /\ op' = "cmd_refused"
            /\ fetch' = "none" /\ events' = <<>>
            /\ disk' = disk /\ saved' = saved
            /\ vpc' = vpc /\ vsaved' = vsaved
       /\ op' \in {"cmd_load", "cmd_validate"} => sender' = ADMIN_CHAT_ID
       /\ op' = "cmd_load" => vsaved' = disk
       /\ op' = "cmd_validate" => (vpc = "loaded" /\ old' = vsaved)]_vars

\* a /validate of another user was refused while the file held a market
C21_Witness ==
    /\ op = "cmd_refused" /\ sender = OtherUser
    /\ disk # EmptySnapshot /\ vpc = "idle"

\* C22: At-most-once alert. No run of the single-run variant attempts the
\* new-market alert of a key that an earlier run has attempted it for and
\* that every successful fetch since has held, whatever failed in between.
C22_AtMostOnceAlert ==
    [][(op' = "run_once" /\ fetch' = "ok") =>
          \A i \in DOMAIN events' :
              events'[i].type = "alert" => events'[i].key \notin alerted]_vars

Detected(snap) == \A k \in DOMAIN snap : snap[k].first_detected_at \in Times

\* C24: first_detected_at always present. Started without a snapshot file,
\* after any sequence of cycles, validations and /validate commands with any
\* failures, every record in the file, in the watcher's snapshot and in any
\* snapshot handed to the store has a first_detected_at.
C24_FirstDetectedPresent ==
    /\ Detected(disk)
    /\ Detected(saved)
    /\ \A i \in Saves(events) : Detected(events[i].data)

\* a validation wrote an updated record of a market to the file
C24_Witness ==
    /\ ValidateDone /\ Wrote(events)
    /\ updated # <<>>
    /\ disk # EmptySnapshot

\* C25: validator idempotence. validate_snapshot run on the result of a
\* successful validate_snapshot, the fresh snapshot being the same in both
\* runs, finds no removed and no updated key, writes nothing to the removal
\* log, does not save, sends no report and returns the snapshot unchanged.
C25_ValidatorIdempotence ==
    [][op' = "revalidate" =>
        /\ removed_keys' = <<>> /\ updated' = <<>>
        /\ events' = <<>>
        /\ disk' = disk
        /\ current' = current]_vars

\* the second run follows a first run that removed one market and updated
\* another, and it did fetch
C25_Witness ==
    /\ op = "revalidate" /\ fetch = "ok"
    /\ DOMAIN old \ DOMAIN current # {}
    /\ \E k \in DOMAIN current : old[k] # current[k]

====
